---- MODULE Spec2Model ----
(***************************************************************************)
(* Model of the text segmentation and concurrent translation pipeline of  *)
(* src/wiki_utils.py: split_text_into_chunks, basic_translate,            *)
(* translate_chunk and translate_text (a ThreadPoolExecutor fan-out with  *)
(* an as_completed fan-in).                                               *)
(*                                                                         *)
(* Strings are run-length encoded.  A string is a sequence of tokens; a   *)
(* token is either a run of n whitespace characters (id = 0) or a         *)
(* whitespace-free word of n characters (id > 0 names the word; e says    *)
(* that its last character is one of . ! ?; t says that the translation   *)
(* provider has rewritten it).  Two adjacent whitespace runs are one run, *)
(* so equality of token sequences is equality of the strings.             *)
(***************************************************************************)
EXTENDS Integers, Sequences, FiniteSets, TLC

VARIABLES
    text,           \* argument of translate_text / split_text_into_chunks
    chunk_size,     \* argument chunk_size of split_text_into_chunks
    plan,           \* what the k-th call of basic_translate meets (environment)
    pc,             \* position of the calling thread
    path,           \* which return path of translate_text was taken
    chunks,         \* wiki_utils.py:301
    max_workers,    \* wiki_utils.py:311 (0: no pool was created)
    submitted,      \* number of executor.submit calls made so far
    fstate,         \* future i -> "queued" | "running" | "finished"
    fresult,        \* future i -> value set by the worker
    chunk_results,  \* wiki_utils.py:314, the index-keyed dict
    arrival,        \* the futures as_completed has yielded, in that order
    calls,          \* arguments of the basic_translate calls, in start order
    ret,            \* value returned by the operation
    writing,        \* the futures whose result is being stored in chunk_results
    translate_lock, \* wiki_utils.py:278: the invocation holding it, 0 when free
    invocation,     \* the translate_text invocations running side by side
    heap,           \* the dict objects of translate_article_content, by name
    from_lang,      \* argument from_lang of translate_article_content
    to_lang,        \* argument to_lang of translate_article_content
    translate_calls,\* the texts passed to translate_text, in call order
    USER_STATE,     \* bot_new.py:82, chat_id -> state
    USER_DATA       \* bot_new.py:83, chat_id -> dict of the chat's data

vars == <<text, chunk_size, plan, pc, path, chunks, max_workers, submitted,
          fstate, fresult, chunk_results, arrival, calls, ret, writing,
          translate_lock, invocation, heap, from_lang, to_lang,
          translate_calls, USER_STATE, USER_DATA>>

\* the variables of wiki_article.translate_article_content
article_state == <<heap, from_lang, to_lang, translate_calls>>
\* the variables of the bot
bot_state == <<USER_STATE, USER_DATA>>

-----------------------------------------------------------------------------
(* Bounds of the model and constants of the program *)

\* longest input text of the translate_text specification, in tokens
MaxTokens == 3
\* longest input text of the chunker specification, in tokens
MaxChunkTokens == 5

\* wiki_utils.py:297, texts shorter than this are translated in one call
ShortTextLimit == 200
\* wiki_utils.py:205, default chunk_size
DefaultChunkSize == 800
\* wiki_utils.py:311, cap of the worker pool
PoolCap == 12

WordLens == {199, 200, 500, 900}
SpaceLens == {1, 2, 200}
ChunkWordLens == {3, 5, 9}
ChunkSpaceLens == {1, 2}
ChunkSizes == {4, 8, 12}

-----------------------------------------------------------------------------
(* Strings *)

Sp(n) == [id |-> 0, n |-> n, e |-> FALSE, t |-> FALSE]
Wd(id, n, e) == [id |-> id, n |-> n, e |-> e, t |-> FALSE]
IsSpace(tok) == tok.id = 0

Min(a, b) == IF a < b THEN a ELSE b

RECURSIVE StrLen(_)
\* len(s)
StrLen(s) == IF s = <<>> THEN 0 ELSE Head(s).n + StrLen(Tail(s))

\* a + b
Cat(a, b) ==
    IF a = <<>> THEN b
    ELSE IF b = <<>> THEN a
    ELSE IF IsSpace(a[Len(a)]) /\ IsSpace(b[1])
         THEN SubSeq(a, 1, Len(a) - 1)
              \o <<Sp(a[Len(a)].n + b[1].n)>>
              \o Tail(b)
         ELSE a \o b

\* s.strip()
Strip(s) ==
    LET l == IF s # <<>> /\ IsSpace(s[1]) THEN Tail(s) ELSE s
    IN  IF l # <<>> /\ IsSpace(l[Len(l)]) THEN SubSeq(l, 1, Len(l) - 1) ELSE l

\* s.split(): the whitespace-separated words of s, in order
RECURSIVE WordsOf(_)
WordsOf(s) ==
    IF s = <<>> THEN <<>>
    ELSE IF IsSpace(Head(s)) THEN WordsOf(Tail(s))
         ELSE <<Head(s)>> \o WordsOf(Tail(s))

RECURSIVE JoinFrom(_, _)
JoinFrom(list, k) ==
    IF k > Len(list) THEN <<>>
    ELSE IF k = Len(list) THEN list[k]
         ELSE Cat(Cat(list[k], <<Sp(1)>>), JoinFrom(list, k + 1))

\* ' '.join(list)
JoinSpace(list) == JoinFrom(list, 1)

RECURSIVE SplitFrom(_, _, _, _)
SplitFrom(s, i, cur, out) ==
    IF i > Len(s) THEN Append(out, cur)
    ELSE IF IsSpace(s[i]) /\ i > 1 /\ s[i - 1].e
         THEN SplitFrom(s, i + 1, <<>>, Append(out, cur))
         ELSE SplitFrom(s, i + 1, Append(cur, s[i]), out)

\* re.split(r'(?<=[.!?])\s+', s): a whitespace run that follows . ! or ? is a
\* separator and is dropped whole; the piece after the last separator is kept
\* even when it is empty
SplitSentences(s) == SplitFrom(s, 1, <<>>, <<>>)

-----------------------------------------------------------------------------
(* split_text_into_chunks *)

\* faulty variant: a blank sub-chunk is not appended
flush_sub_chunk_nonblank(chs, temp_chunk) ==
    IF Strip(temp_chunk) # <<>> THEN Append(chs, Strip(temp_chunk)) ELSE chs

\* chunks.append(temp_chunk.strip()), line 234
flush_sub_chunk(chs, temp_chunk) == Append(chs, Strip(temp_chunk))

\* faulty variant: the words left over after the loop are forgotten
merge_last_sub_chunk_lost(current_chunk, temp_chunk) == current_chunk

\* if temp_chunk.strip(): current_chunk += temp_chunk, lines 239-240
merge_last_sub_chunk(current_chunk, temp_chunk) ==
    IF Strip(temp_chunk) # <<>> THEN Cat(current_chunk, temp_chunk)
    ELSE current_chunk

\* faulty variant: the last chunk is appended even when it is blank
final_flush_always(chs, current_chunk) == Append(chs, Strip(current_chunk))

\* faulty variant: the last chunk is appended as it is, not stripped
final_flush_unstripped(chs, current_chunk) ==
    IF Strip(current_chunk) # <<>> THEN Append(chs, current_chunk) ELSE chs

\* if current_chunk.strip(): chunks.append(current_chunk.strip()),
\* lines 250-251
final_flush(chs, current_chunk) ==
    IF Strip(current_chunk) # <<>> THEN Append(chs, Strip(current_chunk))
    ELSE chs

RECURSIVE WordLoop(_, _, _, _, _)
\* the loop over the words of a sentence longer than chunk_size
WordLoop(words, j, chs, temp_chunk, size) ==
    IF j > Len(words) THEN [chunks |-> chs, temp_chunk |-> temp_chunk]
    ELSE LET word == <<words[j]>>
         IN  IF StrLen(temp_chunk) + StrLen(word) + 1 > size
             THEN WordLoop(words, j + 1, flush_sub_chunk(chs, temp_chunk),
                           Cat(word, <<Sp(1)>>), size)
             ELSE WordLoop(words, j + 1, chs,
                           Cat(Cat(temp_chunk, word), <<Sp(1)>>), size)

\* faulty variant: the chunk is closed when the sentence fills it exactly
sentence_overflows_early(current_chunk, sentence, size) ==
    StrLen(current_chunk) + StrLen(sentence) >= size

\* len(current_chunk) + len(sentence) > chunk_size, line 243
sentence_overflows(current_chunk, sentence, size) ==
    StrLen(current_chunk) + StrLen(sentence) > size

RECURSIVE SentenceLoop(_, _, _, _, _)
\* the loop over the sentences, and the flush of the last chunk
SentenceLoop(sentences, k, chs, current_chunk, size) ==
    IF k > Len(sentences)
    THEN final_flush(chs, current_chunk)
    ELSE LET sentence == sentences[k]
         IN  IF StrLen(sentence) > size
             THEN LET r == WordLoop(WordsOf(sentence), 1, chs, <<>>, size)
                  IN  SentenceLoop(sentences, k + 1, r.chunks,
                                   merge_last_sub_chunk(current_chunk,
                                                        r.temp_chunk),
                                   size)
             ELSE IF sentence_overflows(current_chunk, sentence, size)
                  THEN SentenceLoop(sentences, k + 1,
                                    Append(chs, Strip(current_chunk)),
                                    Cat(sentence, <<Sp(1)>>), size)
                  ELSE SentenceLoop(sentences, k + 1, chs,
                                    Cat(Cat(current_chunk, sentence), <<Sp(1)>>),
                                    size)

split_text_into_chunks(txt, size) ==
    IF txt = <<>> THEN <<>>
    ELSE SentenceLoop(SplitSentences(txt), 1, <<>>, <<>>, size)

-----------------------------------------------------------------------------
(* basic_translate and translate_chunk *)

\* What one call of basic_translate meets.  "ok": the provider answers 200
\* with a list of translated sentences; "badshape": 200 with another shape;
\* "non200": another status; "raise": requests.get raises inside the try;
\* "escape": an exception leaves basic_translate (raised outside its try
\* block or by its handler), the case translate_chunk's handler exists for.
Responses == {"ok", "badshape", "non200", "raise"}
CallOutcomes == Responses \cup {"escape"}

Returns(v) == [exc |-> FALSE, val |-> v]
Raises == [exc |-> TRUE, val |-> <<>>]

\* the provider's translation of s: every word is rewritten, whitespace kept
Translated(s) ==
    [k \in 1..Len(s) |-> IF IsSpace(s[k]) THEN s[k] ELSE [s[k] EXCEPT !.t = TRUE]]

IsBlank(s) == s = <<>> \/ Strip(s) = <<>>

\* faulty variant: a failed request yields the empty string
basic_translate_blank(txt, resp) ==
    IF IsBlank(txt) THEN Returns(txt)
    ELSE IF resp = "escape" THEN Raises
    ELSE IF resp = "ok" THEN Returns(Translated(txt))
    ELSE Returns(<<>>)

\* "nosentences": the provider answers 200 with a list whose first element
\* is a list that holds no sentence list, such as [[]] or [["x"]]: the test
\* of line 22 passes and the join of line 23 is over nothing
basic_translate(txt, resp) ==
    IF IsBlank(txt) THEN Returns(txt)
    ELSE IF resp = "escape" THEN Raises
    ELSE IF resp = "ok" THEN Returns(Translated(txt))
    ELSE IF resp = "nosentences" THEN Returns(<<>>)
    ELSE Returns(txt)

\* faulty variant: a chunk whose translation raises is dropped
translate_chunk_drop(chunk, resp) ==
    IF IsBlank(chunk) THEN Returns(<<>>)
    ELSE LET r == basic_translate(chunk, resp)
         IN  IF r.exc THEN Returns(<<>>) ELSE r

\* faulty variant: without the except clause of lines 273-275
translate_chunk_reraise(chunk, resp) ==
    IF IsBlank(chunk) THEN Returns(<<>>) ELSE basic_translate(chunk, resp)

translate_chunk(chunk, resp) ==
    IF IsBlank(chunk) THEN Returns(<<>>)
    ELSE LET r == basic_translate(chunk, resp)
         IN  IF r.exc THEN Returns(chunk) ELSE r

-----------------------------------------------------------------------------
(* translate_text *)

\* faulty variant: one worker per chunk
MaxWorkersUncapped(n) == n

\* wiki_utils.py:311
MaxWorkers(n) == Min(PoolCap, n)

\* faulty variant: the result is stored under the loop counter
result_key_counter(chunk_index, i) == i

\* faulty variant: every result is stored under the same key
result_key_first(chunk_index, i) == 0

\* the loop of line 324 has a counter i and the index chunk_index of the
\* yielded future; the result is stored under chunk_index
result_key(chunk_index, i) == chunk_index

\* faulty variant: the text is handed back when there is no chunk
no_chunks_result_text(txt) == txt

\* if not chunks: return ""
no_chunks_result(txt) == <<>>

\* faulty variant: <= for <
is_short_inclusive(txt) == StrLen(txt) <= ShortTextLimit

\* len(text) < 200
is_short(txt) == StrLen(txt) < ShortTextLimit

\* faulty variant: list(chunk_results.values()), the dict's insertion order
sorted_chunks_insertion(results, chs) ==
    [k \in 1..Len(chs) |-> results[arrival[k]]]

\* wiki_utils.py:340
sorted_chunks(results, chs) ==
    [k \in 1..Len(chs) |-> IF (k - 1) \in DOMAIN results
                           THEN results[k - 1] ELSE chs[k]]

\* faulty variant: the exception is raised again
translate_text_reraise(txt) == [pc |-> "raised", ret |-> <<>>]

\* the except clause of translate_text: the exception is absorbed and the
\* original text returned
translate_text_except(txt) == [pc |-> "returned", ret |-> txt]

Yielded == {arrival[k] : k \in 1..Len(arrival)}

\* faulty variant: the loop is left after the first future that completes
first_completed == arrival # <<>>

\* the as_completed iterator has yielded every submitted future
as_completed_exhausted == Yielded = DOMAIN fstate

total_chunks == Len(chunks)

\* faulty variant: a pool thread is not free again after its work item
RunningNeverFreed == {i \in DOMAIN fstate : fstate[i] # "queued"}

Running == {i \in DOMAIN fstate : fstate[i] = "running"}

\* faulty variant: a request that gets no answer is given up
call_completes_timeout(resp) == TRUE

\* requests.get(fallback_url), line 18, has no timeout: under "hang" the
\* provider never answers and the call never ends
call_completes(resp) == resp # "hang"

\* if not text: return ""
ReturnEmpty ==
    /\ pc = "start"
    /\ text = <<>>
    /\ pc' = "returned"
    /\ path' = "empty"
    /\ ret' = <<>>
    /\ UNCHANGED <<article_state, bot_state, translate_lock, invocation, writing, text, chunk_size, plan, chunks, max_workers, submitted, fstate,
                   fresult, chunk_results, arrival, calls>>

\* if len(text) < 200: return basic_translate(text, to_lang, from_lang)
TranslateDirect ==
    /\ pc = "start"
    /\ text # <<>>
    /\ is_short(text)
    /\ IsBlank(text) \/ call_completes(plan[0])
    /\ LET r == basic_translate(text, plan[0])
           h == translate_text_except(text)
       IN  /\ pc' = IF r.exc THEN h.pc ELSE "returned"
           /\ ret' = IF r.exc THEN h.ret ELSE r.val
    /\ calls' = <<text>>
    /\ path' = "direct"
    /\ UNCHANGED <<article_state, bot_state, translate_lock, invocation, writing, text, chunk_size, plan, chunks, max_workers, submitted, fstate,
                   fresult, chunk_results, arrival>>

\* chunks = split_text_into_chunks(text); if not chunks: return "";
\* otherwise the pool is created with max_workers = min(12, total_chunks)
SplitChunks ==
    /\ pc = "start"
    /\ text # <<>>
    /\ ~is_short(text)
    /\ LET chs == split_text_into_chunks(text, chunk_size)
       IN  /\ chunks' = chs
           /\ IF chs = <<>>
              THEN /\ pc' = "returned"
                   /\ path' = "nochunks"
                   /\ max_workers' = max_workers
              ELSE /\ pc' = "submit"
                   /\ path' = "chunked"
                   /\ max_workers' = MaxWorkers(Len(chs))
           /\ ret' = IF chs = <<>> THEN no_chunks_result(text) ELSE ret
    /\ UNCHANGED <<article_state, bot_state, translate_lock, invocation, writing, text, chunk_size, plan, submitted, fstate, fresult,
                   chunk_results, arrival, calls>>

\* executor.submit(translate_chunk, chunk, to_lang, from_lang): i, in
\* enumerate order; after the last one the caller enters as_completed
Submit ==
    /\ pc = "submit"
    /\ fstate' = fstate @@ (submitted :> "queued")
    /\ submitted' = submitted + 1
    /\ pc' = IF submitted + 1 = total_chunks THEN "collect" ELSE "submit"
    /\ UNCHANGED <<article_state, bot_state, translate_lock, invocation, writing, text, chunk_size, plan, path, chunks, max_workers, fresult,
                   chunk_results, arrival, calls, ret>>

\* faulty variant: a call that fails is made a second time
issue_call_retry(cs, chunk, resp) ==
    IF resp = "ok" THEN Append(cs, chunk) ELSE cs \o <<chunk, chunk>>

\* translate_chunk calls basic_translate once, whatever the call meets
\* (line 272); a failed call ends in the handlers of lines 31-33 and 273-275
issue_call(cs, chunk, resp) == Append(cs, chunk)

\* a pool thread takes the oldest queued work item (the pool's queue is
\* FIFO and the pool has at most max_workers threads) and enters
\* translate_chunk, which calls basic_translate unless the chunk is blank
WorkerStart(i) ==
    /\ i \in DOMAIN fstate
    /\ fstate[i] = "queued"
    /\ \A j \in DOMAIN fstate : j < i => fstate[j] # "queued"
    /\ Cardinality(Running) < max_workers
    /\ fstate' = [fstate EXCEPT ![i] = "running"]
    /\ calls' = IF IsBlank(chunks[i + 1]) THEN calls
                ELSE issue_call(calls, chunks[i + 1], plan[i])
    /\ UNCHANGED <<article_state, bot_state, translate_lock, invocation, writing, text, chunk_size, plan, pc, path, chunks, max_workers,
                   submitted, fresult, chunk_results, arrival, ret>>

\* translate_chunk returns in the worker: the future is finished
WorkerFinish(i) ==
    /\ i \in DOMAIN fstate
    /\ fstate[i] = "running"
    /\ IsBlank(chunks[i + 1]) \/ call_completes(plan[i])
    /\ fstate' = [fstate EXCEPT ![i] = "finished"]
    /\ fresult' = fresult @@ (i :> translate_chunk(chunks[i + 1], plan[i]))
    /\ UNCHANGED <<article_state, bot_state, translate_lock, invocation, writing, text, chunk_size, plan, pc, path, chunks, max_workers,
                   submitted, chunk_results, arrival, calls, ret>>

\* one iteration of the as_completed loop: a finished future not yet yielded
\* is yielded, its result read under translate_lock and stored under its
\* chunk index; an exception of the future stores the original chunk
CollectResult(i) ==
    /\ pc = "collect"
    /\ i \in DOMAIN fstate
    /\ fstate[i] = "finished"
    /\ i \notin Yielded
    /\ arrival' = Append(arrival, i)
    /\ LET v == IF fresult[i].exc THEN chunks[i + 1] ELSE fresult[i].val
           key == result_key(i, Len(arrival))
       IN  chunk_results' =
               [j \in DOMAIN chunk_results \cup {key} |->
                   IF j = key THEN v ELSE chunk_results[j]]
    /\ UNCHANGED <<article_state, bot_state, translate_lock, invocation, writing, text, chunk_size, plan, pc, path, chunks, max_workers,
                   submitted, fstate, fresult, calls, ret>>

\* the loop is over, the with block shuts the pool down, and the results
\* are joined in index order
Reassemble ==
    /\ pc = "collect"
    /\ as_completed_exhausted
    /\ \A i \in DOMAIN fstate : fstate[i] = "finished"
    /\ ret' = JoinSpace(sorted_chunks(chunk_results, chunks))
    /\ pc' = "returned"
    /\ UNCHANGED <<article_state, bot_state, translate_lock, invocation, writing, text, chunk_size, plan, path, chunks, max_workers, submitted,
                   fstate, fresult, chunk_results, arrival, calls>>

\* The whole as_completed loop as one step, taken when every future has
\* finished.  The workers never wait for the calling thread, so the states
\* of the futures reached are those of the step-by-step loop; the order of
\* the yields is not followed here: they are recorded in index order.
DrainCompleted ==
    /\ pc = "collect"
    /\ arrival = <<>>
    /\ \A i \in DOMAIN fstate : fstate[i] = "finished"
    /\ arrival' = [k \in 1..submitted |-> k - 1]
    /\ chunk_results' =
           [i \in DOMAIN fstate |->
               IF fresult[i].exc THEN chunks[i + 1] ELSE fresult[i].val]
    /\ UNCHANGED <<article_state, bot_state, translate_lock, invocation, writing, text, chunk_size, plan, pc, path, chunks, max_workers,
                   submitted, fstate, fresult, calls, ret>>

-----------------------------------------------------------------------------
(* Inputs *)

RECURSIVE Alt(_, _, _, _)
\* the strings of k tokens, words and whitespace runs alternating; the word
\* at position p is named p
Alt(k, wordFirst, wl, sl) ==
    IF k = 0 THEN {<<>>}
    ELSE LET isWord == ((k % 2) = 1) = wordFirst
             toks == IF isWord
                     THEN {Wd(k, n, e) : n \in wl, e \in BOOLEAN}
                     ELSE {Sp(n) : n \in sl}
         IN  UNION {{Append(p, tok) : tok \in toks} : p \in Alt(k - 1, wordFirst, wl, sl)}

StringsUpTo(m, wl, sl) ==
    UNION {Alt(k, TRUE, wl, sl) \cup Alt(k, FALSE, wl, sl) : k \in 0..m}

Texts == StringsUpTo(MaxTokens, WordLens, SpaceLens)
ChunkTexts == StringsUpTo(MaxChunkTokens, ChunkWordLens, ChunkSpaceLens)

\* n sentences of 500 characters, one space between them
PoolText(n) ==
    [k \in 1..(2 * n - 1) |-> IF k % 2 = 1 THEN Wd(k, 500, TRUE) ELSE Sp(1)]

\* the number of basic_translate calls translate_text can make for txt
NumCalls(txt) ==
    IF txt = <<>> THEN 0
    ELSE IF StrLen(txt) < ShortTextLimit THEN 1
    ELSE Len(split_text_into_chunks(txt, DefaultChunkSize))

\* the variables of one translate_text invocation when it is entered
InitLocals(txt, size, pl, at) ==
    /\ text = txt
    /\ chunk_size = size
    /\ plan = pl
    /\ pc = at
    /\ path = "none"
    /\ chunks = <<>>
    /\ max_workers = 0
    /\ submitted = 0
    /\ fstate = <<>>
    /\ fresult = <<>>
    /\ chunk_results = <<>>
    /\ arrival = <<>>
    /\ calls = <<>>
    /\ ret = <<>>
    /\ writing = {}

\* no other invocation runs at the same time
NoConcurrency == translate_lock = 0 /\ invocation = <<>>

\* translate_article_content is not called
NoArticle ==
    /\ heap = <<>>
    /\ from_lang = "en"
    /\ to_lang = "en"
    /\ translate_calls = <<>>

\* the bot has no chat
NoBot == USER_STATE = <<>> /\ USER_DATA = <<>>

InitWith(txt, size, pl, at) ==
    /\ InitLocals(txt, size, pl, at)
    /\ NoConcurrency
    /\ NoArticle
    /\ NoBot

\* translate_text on every text of at most MaxTokens tokens, under every
\* assignment of outcomes to its calls
Init ==
    \E txt \in Texts :
        \E pl \in [0..(NumCalls(txt) - 1) -> CallOutcomes] :
            InitWith(txt, DefaultChunkSize, pl, "start")

Next ==
    \/ ReturnEmpty
    \/ TranslateDirect
    \/ SplitChunks
    \/ Submit
    \/ \E i \in 0..(submitted - 1) : WorkerStart(i)
    \/ \E i \in 0..(submitted - 1) : WorkerFinish(i)
    \/ \E i \in 0..(submitted - 1) : CollectResult(i)
    \/ Reassemble

Spec == Init /\ [][Next]_vars

\* the smallest number of chunks the pool's cap is below
PoolChunks == PoolCap + 1

\* translate_text on a text of PoolChunks chunks
InitPool ==
    InitWith(PoolText(PoolChunks), DefaultChunkSize,
             [i \in 0..(PoolChunks - 1) |-> "ok"], "start")

NextPool ==
    \/ SplitChunks
    \/ Submit
    \/ \E i \in 0..(submitted - 1) : WorkerStart(i)
    \/ \E i \in 0..(submitted - 1) : WorkerFinish(i)
    \/ DrainCompleted
    \/ Reassemble

SpecPool == InitPool /\ [][NextPool]_vars

\* split_text_into_chunks on every text of at most MaxChunkTokens tokens
RunChunker ==
    /\ pc = "chunker"
    /\ chunks' = split_text_into_chunks(text, chunk_size)
    /\ pc' = "chunked"
    /\ UNCHANGED <<article_state, bot_state, translate_lock, invocation, writing, text, chunk_size, plan, path, max_workers, submitted, fstate,
                   fresult, chunk_results, arrival, calls, ret>>

\* one unbroken token of 1000 characters, without sentence punctuation
UnbrokenText == <<Wd(1, 1000, FALSE)>>

InitChunk ==
    \/ \E txt \in ChunkTexts, size \in ChunkSizes :
           InitWith(txt, size, <<>>, "chunker")
    \/ InitWith(UnbrokenText, DefaultChunkSize, <<>>, "chunker")

NextChunk == RunChunker

\* translate_text with the loop of as_completed as one step, on texts of
\* 1, 2 and PoolChunks chunks, every call ending: the first call of the two
\* short texts under every outcome
InitLive ==
    \/ \E n \in {1, 2}, o \in CallOutcomes :
           InitWith(PoolText(n), DefaultChunkSize,
                    [i \in 0..(n - 1) |-> IF i = 0 THEN o ELSE "ok"], "start")
    \/ InitPool

\* the steps of the thread that called translate_text, up to its return
Caller == SplitChunks \/ Submit \/ DrainCompleted

\* the condition under which Reassemble can be taken
CanReturn == pc = "collect" /\ as_completed_exhausted

\* the steps of the pool's threads
Workers == \E i \in 0..(submitted - 1) : WorkerStart(i) \/ WorkerFinish(i)

\* the calling thread and the pool's threads are scheduled: a thread that
\* can take a step takes one.  The third conjunct is weak fairness of
\* Reassemble, with the condition under which it is enabled written out.
SpecLive ==
    /\ InitLive
    /\ [][NextPool]_vars
    /\ WF_<<pc, submitted, arrival>>(Caller)
    /\ (<>[]CanReturn => []<><<Reassemble>>_pc)
    /\ WF_fstate(Workers)

\* faulty variant: the iterations of the loop do not wait for one another
caller_free_always == TRUE

\* the loop of line 324 runs in the thread that called translate_text, one
\* iteration at a time: no store is under way when the next one begins
caller_free == writing = {}

\* the first half of an iteration of the as_completed loop: a finished future
\* is yielded and its result read under translate_lock (lines 324-329)
BeginStore(i) ==
    /\ pc = "collect"
    /\ caller_free
    /\ i \in DOMAIN fstate
    /\ fstate[i] = "finished"
    /\ i \notin Yielded
    /\ arrival' = Append(arrival, i)
    /\ writing' = writing \cup {i}
    /\ UNCHANGED <<article_state, bot_state, translate_lock, invocation, text, chunk_size, plan, pc, path,
                   chunks, max_workers, submitted, fstate, fresult, chunk_results, calls, ret>>

\* the second half: chunk_results[chunk_index] is assigned (line 332, or
\* line 337 when the future raised)
EndStore(i) ==
    /\ i \in writing
    /\ LET v == IF fresult[i].exc THEN chunks[i + 1] ELSE fresult[i].val
           n == CHOOSE k \in 1..Len(arrival) : arrival[k] = i
           key == result_key(i, n - 1)
       IN  chunk_results' =
               [j \in DOMAIN chunk_results \cup {key} |->
                   IF j = key THEN v ELSE chunk_results[j]]
    /\ writing' = writing \ {i}
    /\ UNCHANGED <<article_state, bot_state, translate_lock, invocation, text, chunk_size, plan, pc, path,
                   chunks, max_workers, submitted, fstate, fresult, arrival, calls, ret>>

\* translate_text on texts of 1 to 3 chunks, each call translated or raising
InitWrite ==
    \E n \in 1..3 :
        \E pl \in [0..(n - 1) -> {"ok", "raise"}] :
            InitWith(PoolText(n), DefaultChunkSize, pl, "start")

\* translate_text with the two halves of a loop iteration as steps
NextWrite ==
    \/ SplitChunks
    \/ Submit
    \/ \E i \in 0..(submitted - 1) : WorkerStart(i)
    \/ \E i \in 0..(submitted - 1) : WorkerFinish(i)
    \/ \E i \in 0..(submitted - 1) : BeginStore(i)
    \/ \E i \in 0..(submitted - 1) : EndStore(i)
    \/ (writing = {} /\ Reassemble)

SpecWrite == InitWrite /\ [][NextWrite]_vars

\* the outcomes of a call when the provider may also never answer
HangOutcomes == {"ok", "raise", "hang"}

\* translate_text on every text of at most MaxTokens tokens, when calls
\* may never end
InitHang ==
    \E txt \in Texts :
        \E pl \in [0..(NumCalls(txt) - 1) -> HangOutcomes] :
            InitWith(txt, DefaultChunkSize, pl, "start")

SpecHang == InitHang /\ [][Next]_vars

\* what the provider can answer to one request
ProviderAnswers == Responses \cup {"nosentences"}

\* basic_translate(text, to_lang, from_lang) called on its own
RunTranslate ==
    /\ pc = "translate"
    /\ LET r == basic_translate(text, plan[0])
       IN  /\ pc' = IF r.exc THEN "raised" ELSE "returned"
           /\ ret' = r.val
    /\ calls' = IF IsBlank(text) THEN calls ELSE <<text>>
    /\ path' = "basic"
    /\ UNCHANGED <<article_state, bot_state, translate_lock, invocation, writing, text, chunk_size, plan, chunks, max_workers, submitted, fstate,
                   fresult, chunk_results, arrival>>

\* basic_translate on every text of at most MaxTokens tokens, under every
\* answer of the provider
InitTranslate ==
    \E txt \in Texts, resp \in ProviderAnswers :
        InitWith(txt, DefaultChunkSize, 0 :> resp, "translate")

NextTranslate == RunTranslate

SpecTranslate == InitTranslate /\ [][NextTranslate]_vars

\* translate_chunk(chunk, to_lang, from_lang) called on its own: a chunk
\* that is empty or blank is answered before basic_translate is called
RunTranslateChunk ==
    /\ pc = "translate_chunk"
    /\ LET r == translate_chunk(text, plan[0])
       IN  /\ pc' = IF r.exc THEN "raised" ELSE "returned"
           /\ ret' = r.val
    /\ calls' = IF IsBlank(text) THEN calls
                ELSE issue_call(calls, text, plan[0])
    /\ path' = "chunk"
    /\ UNCHANGED <<article_state, bot_state, translate_lock, invocation,
                   writing, text, chunk_size, plan, chunks, max_workers,
                   submitted, fstate, fresult, chunk_results, arrival>>

\* translate_chunk on every text of at most MaxTokens tokens, under every
\* answer of the provider and under an exception that leaves basic_translate
InitTranslateChunk ==
    \E txt \in Texts, resp \in ProviderAnswers \cup {"escape"} :
        InitWith(txt, DefaultChunkSize, 0 :> resp, "translate_chunk")

NextTranslateChunk == RunTranslateChunk

SpecTranslateChunk == InitTranslateChunk /\ [][NextTranslateChunk]_vars

SpecChunk == InitChunk /\ [][NextChunk]_vars

-----------------------------------------------------------------------------
(* translate_text invocations running at the same time in different threads.
   Each has its own arguments, locals, pool and futures: invocation[k] is
   the record of them.  translate_lock is the one object they share. *)

Invocations == {1, 2}

\* faulty variant: the futures are taken as submitted, finished or not
as_completed_yields_any(fs) == TRUE

\* as_completed (line 324) yields a future once it has finished
as_completed_yields(fs) == fs = "finished"

\* the future the loop of line 324 is handling
CurrentFuture(v) == v.arrival[Len(v.arrival)]

\* the variables the invocations running side by side leave alone
SingleInvocation ==
    <<text, chunk_size, plan, pc, path, chunks, max_workers, submitted,
      fstate, fresult, chunk_results, arrival, calls, ret, writing,
      article_state, bot_state>>

\* lines 297-298, the direct call of a short text
DirectCall(k) ==
    LET v == invocation[k]
    IN  /\ v.pc = "start"
        /\ is_short(v.text)
        /\ IsBlank(v.text) \/ call_completes(v.plan[0])
        /\ LET r == basic_translate(v.text, v.plan[0])
               h == translate_text_except(v.text)
           IN  invocation' =
                   [invocation EXCEPT
                       ![k].pc = IF r.exc THEN h.pc ELSE "returned",
                       ![k].ret = IF r.exc THEN h.ret ELSE r.val]
        /\ UNCHANGED <<translate_lock, SingleInvocation>>

\* lines 301-321: the text is split and every chunk submitted to the
\* invocation's own pool, which has a thread for each of them
SubmitAll(k) ==
    LET v == invocation[k]
        chs == split_text_into_chunks(v.text, DefaultChunkSize)
    IN  /\ v.pc = "start"
        /\ ~is_short(v.text)
        /\ invocation' =
               [invocation EXCEPT
                   ![k].chunks = chs,
                   ![k].pc = IF chs = <<>> THEN "returned" ELSE "collect",
                   ![k].fstate = [i \in 0..(Len(chs) - 1) |-> "queued"]]
        /\ UNCHANGED <<translate_lock, SingleInvocation>>

\* a pool thread runs translate_chunk for chunk i to its end
RunWorker(k, i) ==
    LET v == invocation[k]
    IN  /\ i \in DOMAIN v.fstate
        /\ v.fstate[i] = "queued"
        /\ IsBlank(v.chunks[i + 1]) \/ call_completes(v.plan[i])
        /\ invocation' =
               [invocation EXCEPT
                   ![k].fstate[i] = "finished",
                   ![k].fresult =
                       v.fresult @@
                           (i :> translate_chunk(v.chunks[i + 1], v.plan[i]))]
        /\ UNCHANGED <<translate_lock, SingleInvocation>>

\* line 324: the loop takes its next future
YieldFuture(k, i) ==
    LET v == invocation[k]
    IN  /\ v.pc = "collect"
        /\ i \in DOMAIN v.fstate
        /\ \A n \in 1..Len(v.arrival) : v.arrival[n] # i
        /\ as_completed_yields(v.fstate[i])
        /\ invocation' =
               [invocation EXCEPT ![k].arrival = Append(v.arrival, i),
                                  ![k].pc = "acquire"]
        /\ UNCHANGED <<translate_lock, SingleInvocation>>

\* line 328: with translate_lock, the thread waits until the lock is free
AcquireLock(k) ==
    /\ invocation[k].pc = "acquire"
    /\ translate_lock = 0
    /\ translate_lock' = k
    /\ invocation' = [invocation EXCEPT ![k].pc = "locked"]
    /\ UNCHANGED SingleInvocation

\* lines 329-337: future.result() returns once the future has finished, the
\* with block releases the lock and the result is stored under its index
ReadResult(k) ==
    LET v == invocation[k]
        i == CurrentFuture(v)
    IN  /\ v.pc = "locked"
        /\ v.fstate[i] = "finished"
        /\ translate_lock' = 0
        /\ invocation' =
               [invocation EXCEPT
                   ![k].chunk_results =
                       (result_key(i, Len(v.arrival) - 1) :>
                            IF v.fresult[i].exc THEN v.chunks[i + 1]
                            ELSE v.fresult[i].val) @@ v.chunk_results,
                   ![k].pc = "collect"]
        /\ UNCHANGED SingleInvocation

\* lines 340-343
JoinResults(k) ==
    LET v == invocation[k]
    IN  /\ v.pc = "collect"
        /\ Len(v.arrival) = Len(v.chunks)
        /\ invocation' =
               [invocation EXCEPT
                   ![k].ret = JoinSpace(sorted_chunks(v.chunk_results, v.chunks)),
                   ![k].pc = "returned"]
        /\ UNCHANGED <<translate_lock, SingleInvocation>>

\* the invocation's own variables are those of invocation[k]; the
\* variables of the single invocation are not used.  Each invocation is
\* given a short text or a text of two chunks
InitConcurrent ==
    /\ InitLocals(<<>>, DefaultChunkSize, <<>>, "concurrent")
    /\ NoArticle
    /\ NoBot
    /\ translate_lock = 0
    /\ \E t \in [Invocations -> {<<Wd(1, 199, TRUE)>>, PoolText(2)}] :
           \E p \in [Invocations -> [0..1 -> HangOutcomes]] :
               invocation =
                   [k \in Invocations |->
                       [text |-> t[k],
                        plan |-> [c \in 0..(NumCalls(t[k]) - 1) |-> p[k][c]],
                        pc |-> "start", chunks |-> <<>>, fstate |-> <<>>,
                        fresult |-> <<>>, chunk_results |-> <<>>,
                        arrival |-> <<>>, ret |-> <<>>]]

\* the steps of the thread that called translate_text, and those of the
\* pool's threads (RunWorker)
NextConcurrent ==
    \E k \in Invocations :
        \/ DirectCall(k)
        \/ SubmitAll(k)
        \/ \E i \in 0..1 : YieldFuture(k, i)
        \/ AcquireLock(k)
        \/ ReadResult(k)
        \/ JoinResults(k)
        \/ \E i \in 0..1 : RunWorker(k, i)

\* a thread that waits for the lock while it is free gets it, and a thread
\* that holds the lock runs on
SpecConcurrent ==
    /\ InitConcurrent
    /\ [][NextConcurrent]_vars
    /\ \A k \in Invocations :
           WF_vars(AcquireLock(k)) /\ WF_vars(ReadResult(k))

-----------------------------------------------------------------------------
(* wiki_article.translate_article_content

   The dicts are objects: heap maps the name of a dict to its entries, a
   record; a list of sections is the sequence of the names of its dicts.
   The article is object 0 and its sections are 1, 2, ...; a dict made by
   dict(d) is named CopyOffset + the name of d. *)

\* most sections of an article
MaxSections == 2

CopyOffset == 10
\* the value None of Python where an object is expected
NoObject == 0 - 1
\* the value None of Python where a string is expected
NoneTitle == <<Wd(0 - 1, 0, FALSE)>>

\* not v, for a string or None
Falsy(v) == v = NoneTitle \/ v = <<>>

\* what translate_text(txt) returns when each of its calls meets outcome o
translate_text(txt, o) ==
    IF txt = <<>> THEN <<>>
    ELSE IF is_short(txt)
    THEN LET r == basic_translate(txt, o)
         IN  IF r.exc THEN translate_text_except(txt).ret ELSE r.val
    ELSE LET chs == split_text_into_chunks(txt, DefaultChunkSize)
         IN  IF chs = <<>> THEN no_chunks_result(txt)
             ELSE JoinSpace(sorted_chunks(
                      [i \in 0..(Len(chs) - 1) |-> translate_chunk(chs[i + 1], o).val],
                      chs))

\* faulty variant: translated = d, the same object under another name
fresh_dict_alias(d) == d

\* dict(d), lines 121 and 133: the name of the new object
fresh_dict(d) == CopyOffset + d

\* the heap after dict(d): the new object has the entries of d
AfterCopy(h, d) ==
    LET new == fresh_dict(d)
    IN  [x \in DOMAIN h \cup {new} |-> IF x = new THEN h[d] ELSE h[x]]

\* section.get('title'), line 134
has_title(entries) == "title" \in DOMAIN entries /\ ~Falsy(entries.title)

RECURSIVE TranslateSections(_, _, _, _, _)
\* the loop of lines 132-137 from section k on; cs are the texts passed to
\* translate_text so far and out the list translated_sections
TranslateSections(h, sections, k, cs, out) ==
    IF k > Len(sections) THEN [heap |-> h, calls |-> cs, list |-> out]
    ELSE LET section == sections[k]
             translated_section == fresh_dict(section)
             h1 == AfterCopy(h, section)
             titled == has_title(h1[section])
             cs1 == IF titled THEN Append(cs, h1[section].title) ELSE cs
             h2 == IF titled
                   THEN [h1 EXCEPT ![translated_section].title =
                            translate_text(h1[section].title, plan[Len(cs)])]
                   ELSE h1
             cs2 == Append(cs1, h2[section].content)
             h3 == [h2 EXCEPT ![translated_section].content =
                       translate_text(h2[section].content, plan[Len(cs1)])]
         IN  TranslateSections(h3, sections, k + 1, cs2,
                               Append(out, translated_section))

\* translate_article_content(article, from_lang, to_lang) on heap h: the
\* heap afterwards, the texts passed to translate_text and the object
\* returned.  A missing 'summary' raises KeyError at line 127, and the
\* handler of line 142 returns the article.
translate_article_content(h, article, fl, tl) ==
    IF article = NoObject \/ DOMAIN h[article] = {} \/ fl = tl
    THEN [heap |-> h, calls |-> <<>>, ret |-> article]
    ELSE LET translated_article == fresh_dict(article)
             h1 == AfterCopy(h, article)
             h2 == [h1 EXCEPT ![translated_article].title =
                       translate_text(h1[article].title, plan[0])]
             cs1 == <<h1[article].title>>
         IN  IF "summary" \notin DOMAIN h2[article]
             THEN [heap |-> h2, calls |-> cs1, ret |-> article]
             ELSE LET h3 == [h2 EXCEPT ![translated_article].summary =
                                translate_text(h2[article].summary, plan[1])]
                      cs2 == Append(cs1, h2[article].summary)
                  IN  IF /\ "sections" \in DOMAIN h3[article]
                         /\ h3[article].sections # <<>>
                      THEN LET r == TranslateSections(h3, h3[article].sections,
                                                      1, cs2, <<>>)
                           IN  [heap |-> [r.heap EXCEPT
                                    ![translated_article].sections = r.list],
                                calls |-> r.calls,
                                ret |-> translated_article]
                      ELSE [heap |-> h3, calls |-> cs2,
                            ret |-> translated_article]

TranslateArticle ==
    /\ pc = "article"
    /\ LET r == translate_article_content(
                    heap, IF 0 \in DOMAIN heap THEN 0 ELSE NoObject,
                    from_lang, to_lang)
       IN  /\ heap' = r.heap
           /\ translate_calls' = r.calls
           /\ ret' = r.ret
    /\ pc' = "translated"
    /\ UNCHANGED <<bot_state, translate_lock, invocation, writing, text,
                   chunk_size, plan, path, chunks, max_workers, submitted,
                   fstate, fresult, chunk_results, arrival, calls,
                   from_lang, to_lang>>

\* the sections: the title None, empty or a word; the content empty, a
\* sentence or a text of two chunks; two levels
SectionDicts ==
    [title : {NoneTitle, <<>>, <<Wd(3, 5, FALSE)>>},
     content : {<<>>, <<Wd(4, 5, TRUE)>>, PoolText(2)},
     level : {0, 2}]

ArticleTitle == <<Wd(1, 5, FALSE)>>
ArticleSummary == <<Wd(2, 5, TRUE), Sp(1), Wd(3, 5, TRUE)>>

\* the heaps: no article, an empty dict, an article without 'summary', one
\* without 'sections', and articles of 0 to MaxSections sections
Heaps ==
    {<<>>,
     0 :> <<>>,
     0 :> [title |-> ArticleTitle],
     0 :> [title |-> ArticleTitle, summary |-> ArticleSummary]}
    \cup UNION {
        {(0 :> [title |-> ArticleTitle, summary |-> ArticleSummary,
                sections |-> [k \in 1..n |-> k]]) @@ ds :
             ds \in [1..n -> SectionDicts]} : n \in 0..MaxSections}

\* the outcomes of the calls of translate_text: all translated, all failed,
\* and the two alternations
InitArticle ==
    /\ \E pl \in {[k \in 0..(2 * MaxSections + 1) |-> o] :
                      o \in {"ok", "non200"}}
                 \cup {[k \in 0..(2 * MaxSections + 1) |->
                           IF k % 2 = b THEN "ok" ELSE "raise"] :
                           b \in {0, 1}} :
           InitLocals(<<>>, DefaultChunkSize, pl, "article")
    /\ NoConcurrency
    /\ NoBot
    /\ heap \in Heaps
    /\ from_lang \in {"en", "es"}
    /\ to_lang \in {"en", "es"}
    /\ translate_calls = <<>>

NextArticle == TranslateArticle

SpecArticle == InitArticle /\ [][NextArticle]_vars

-----------------------------------------------------------------------------
(* The bot of bot_new.py: USER_STATE and USER_DATA under the handlers of
   WikiBot.  A handler runs from the update it is given to its end as one
   step.  An article is known by its title and its language (the dict's
   'title' and 'url'); its sections and its translation are functions of
   it.  A call of the Telegram API can fail, and the exception ends the
   handler where it is. *)

Chats == {1, 2}
\* the chats whose users go on to open articles; the others stop at the
\* list of results
Readers == {1}
Titles == {"A", "B"}
BotLanguages == {"en", "es"}
Queries == {"q1", "q2"}

\* bot_new.py:72
DEFAULT_LANGUAGE == "en"

\* the dict get_article_content returns for a title in a language
Article(title, language) == [title |-> title, language |-> language]

\* bot_new.translate_article_content(article, source_lang, target_lang),
\* lines 138-161: a new dict of the translated fields
TranslationOf(article, target_lang) == [of |-> article, to |-> target_lang]

\* d[key] = value
Assign(d, key, value) ==
    [k \in DOMAIN d \cup {key} |-> IF k = key THEN value ELSE d[k]]

\* key in d
Has(d, key) == key \in DOMAIN d

\* lines 187-188 and 478-479
state_initialised(c) ==
    IF c \in DOMAIN USER_STATE THEN USER_STATE
    ELSE [x \in DOMAIN USER_STATE \cup {c} |->
             IF x = c THEN "START" ELSE USER_STATE[x]]

\* lines 191-192 and 480-481
data_initialised(c) ==
    IF c \in DOMAIN USER_DATA THEN USER_DATA
    ELSE [x \in DOMAIN USER_DATA \cup {c} |->
             IF x = c THEN [language |-> DEFAULT_LANGUAGE] ELSE USER_DATA[x]]

\* the handler's effect: the dicts after initialisation, with the chat's
\* state and data as given
Effect(c, state, data) ==
    /\ USER_STATE' = [state_initialised(c) EXCEPT ![c] = state]
    /\ USER_DATA' = [data_initialised(c) EXCEPT ![c] = data]
    /\ UNCHANGED <<text, chunk_size, plan, pc, path, chunks, max_workers,
                   submitted, fstate, fresult, chunk_results, arrival, calls,
                   ret, writing, translate_lock, invocation, article_state>>

StateOf(c) == state_initialised(c)[c]
DataOf(c) == data_initialised(c)[c]

\* an update that writes nothing beyond the initialisation: /help, an
\* unknown command, a message that is not text, a callback without a
\* branch or whose handler only sends messages
HandleOther(c) == Effect(c, StateOf(c), DataOf(c))

\* faulty variant: the stored data are kept and the language reset
start_data_keep(d) == Assign(d, "language", DEFAULT_LANGUAGE)

\* line 231
start_data(d) == [language |-> DEFAULT_LANGUAGE]

\* handle_start, lines 225-231
HandleStart(c) == Effect(c, "SELECTING_LANGUAGE", start_data(DataOf(c)))

\* faulty variant: /cancel resets the data as /start does
cancel_data_reset(d) == [language |-> DEFAULT_LANGUAGE]

\* handle_cancel writes USER_STATE only
cancel_data(d) == d

\* handle_cancel, lines 281-283
HandleCancel(c) == Effect(c, "START", cancel_data(DataOf(c)))

\* faulty variant: a text is taken for a query whenever results are shown
searches_in_results(state) == state \in {"SEARCHING", "VIEWING_RESULTS"}

\* line 306: elif state == "SEARCHING"
searches_in(state) == state = "SEARCHING"

\* handle_search, lines 312-328: the query is stored, then the message
\* "Searching for" is sent, then the search is made and the state set; found
\* says whether the search has results, which are looked at after that
handle_search(c, query, sent, found) ==
    Effect(c, IF sent THEN "VIEWING_RESULTS" ELSE StateOf(c),
           Assign(DataOf(c), "search_query", query))

\* handle_message with a text that is no command, and handle_text_message
HandleText(c) ==
    IF searches_in(StateOf(c))
    THEN \E query \in Queries, sent \in BOOLEAN, found \in BOOLEAN :
             handle_search(c, query, sent, found)
    ELSE Effect(c, StateOf(c), DataOf(c))

\* handle_language_selection, lines 536-545
HandleLanguageSelection(c) ==
    \E lang_code \in BotLanguages :
        Effect(c, "SEARCHING", Assign(DataOf(c), "language", lang_code))

\* handle_article_selection, lines 554-589; found: get_wikipedia_article
\* returned an article
HandleArticleSelection(c) ==
    /\ c \in Readers
    /\ \E title \in Titles, sent \in BOOLEAN, found \in BOOLEAN :
           IF sent /\ found
           THEN Effect(c, "VIEWING_ARTICLE",
                       Assign(DataOf(c), "current_article",
                              Article(title, DataOf(c).language)))
           ELSE Effect(c, StateOf(c), DataOf(c))

\* handle_action_selection with action read, lines 664-693; the sections
\* are split_content_into_sections(article['content']), a function of the
\* article
HandleRead(c) ==
    /\ c \in Readers
    /\ IF Has(DataOf(c), "current_article")
       THEN Effect(c, "READING_ARTICLE",
                   Assign(Assign(DataOf(c), "article_sections",
                                 [of |-> DataOf(c).current_article]),
                          "current_section", 0))
       ELSE Effect(c, StateOf(c), DataOf(c))

\* handle_view_language_selection, lines 857-917; found: the language is
\* available and the article was retrieved
HandleViewLanguage(c) ==
    /\ c \in Readers
    /\ \E target_lang \in BotLanguages, sent \in BOOLEAN, found \in BOOLEAN :
           IF Has(DataOf(c), "current_article") /\ sent /\ found
           THEN Effect(c, StateOf(c),
                       Assign(Assign(DataOf(c), "current_article",
                                     Article(DataOf(c).current_article.title,
                                             target_lang)),
                              "language", target_lang))
           ELSE Effect(c, StateOf(c), DataOf(c))

\* handle_translate_selection, lines 989-1040
HandleTranslate(c) ==
    /\ c \in Readers
    /\ \E target_lang \in {"es"}, sent \in BOOLEAN :
           IF ~Has(DataOf(c), "current_article")
           THEN Effect(c, StateOf(c), DataOf(c))
           ELSE IF ~sent
           THEN Effect(c, "TRANSLATING", DataOf(c))
           ELSE Effect(c, "VIEWING_TRANSLATION",
                       Assign(Assign(DataOf(c), "translated_article",
                                     TranslationOf(DataOf(c).current_article,
                                                   target_lang)),
                              "translation_language", target_lang))

\* handle_back_to_article, lines 1154-1168; also reached from the callback
\* section:n (lines 507-511, 379-386) when n is no index of a section
HandleBackToArticle(c) ==
    Effect(c, IF Has(DataOf(c), "current_article") THEN "VIEWING_ARTICLE"
              ELSE StateOf(c),
           DataOf(c))

\* handle_new_search, lines 1095-1098
HandleNewSearch(c) == Effect(c, "SELECTING_LANGUAGE", DataOf(c))

\* handle_try_again, lines 1133-1139
HandleTryAgain(c) == Effect(c, "SEARCHING", DataOf(c))

\* handle_back_to_translation, lines 1648-1668
HandleBackToTranslation(c) ==
    Effect(c, IF Has(DataOf(c), "translated_article") THEN "VIEWING_TRANSLATION"
              ELSE StateOf(c),
           DataOf(c))

InitBot ==
    /\ InitLocals(<<>>, DefaultChunkSize, <<>>, "bot")
    /\ NoConcurrency
    /\ NoArticle
    /\ USER_STATE = <<>>
    /\ USER_DATA = <<>>

\* the update the bot is given, from any chat
NextBot ==
    \E c \in Chats :
        \/ HandleOther(c)
        \/ HandleStart(c)
        \/ HandleCancel(c)
        \/ HandleText(c)
        \/ HandleLanguageSelection(c)
        \/ HandleArticleSelection(c)
        \/ HandleRead(c)
        \/ HandleViewLanguage(c)
        \/ HandleTranslate(c)
        \/ HandleBackToArticle(c)
        \/ HandleNewSearch(c)
        \/ HandleTryAgain(c)
        \/ HandleBackToTranslation(c)

SpecBot == InitBot /\ [][NextBot]_vars

-----------------------------------------------------------------------------
(* Properties *)

Returned == pc = "returned"
Chunked == path = "chunked"
Range(f) == {f[x] : x \in DOMAIN f}
OutOfOrder == \E a, b \in 1..Len(arrival) : a < b /\ arrival[a] > arrival[b]
FailureOutcomes == CallOutcomes \ {"ok"}
RaisingOutcomes == {"raise", "escape"}

\* what the call for one chunk contributes under a given outcome
Contribution(chunk, o) ==
    IF IsBlank(chunk) THEN <<>>
    ELSE IF o = "ok" THEN Translated(chunk)
    ELSE chunk

\* the output as a function of the text and of the outcome of each chunk's
\* call alone
ExpectedOutput(txt, pl) ==
    LET chs == split_text_into_chunks(txt, DefaultChunkSize)
    IN  JoinSpace([k \in 1..Len(chs) |-> Contribution(chs[k], pl[k - 1])])

\* C1: for a text of two or more chunks and fixed outcomes of the chunks'
\* calls, the string returned is the same whatever the order in which the
\* calls complete and are collected: it is the per-chunk contributions in
\* the order of the chunks.
C1_OrderInvariance ==
    (Returned /\ Chunked /\ total_chunks >= 2)
        => ret = ExpectedOutput(text, plan)

\* two chunks with different results were collected in the opposite order
C1_Witness ==
    /\ Returned /\ Chunked /\ total_chunks >= 2
    /\ OutOfOrder
    /\ \E i, j \in DOMAIN chunk_results : chunk_results[i] # chunk_results[j]

\* C2: when the call of chunk i alone raises, the output is what it would be
\* had that call returned chunk i unchanged; every other chunk contributes
\* its translation and every non-blank chunk was passed to the translator
\* exactly once.
C2_FaultTolerance ==
    (Returned /\ Chunked) =>
        \A i \in DOMAIN plan :
            (/\ plan[i] \in RaisingOutcomes
             /\ \A j \in DOMAIN plan \ {i} : plan[j] = "ok")
            => /\ ret = JoinSpace([k \in 1..total_chunks |->
                            IF k - 1 = i THEN chunks[k]
                            ELSE Translated(chunks[k])])
               /\ \A k \in 1..total_chunks :
                     ~IsBlank(chunks[k]) =>
                         Cardinality({c \in DOMAIN calls : calls[c] = chunks[k]}) = 1

\* one call raised out of basic_translate, its siblings were translated
C2_Witness ==
    /\ Returned /\ Chunked /\ total_chunks >= 2
    /\ \E i \in DOMAIN plan :
          /\ plan[i] = "escape"
          /\ ~IsBlank(chunks[i + 1])
          /\ chunk_results[i] = chunks[i + 1]
          /\ \A j \in DOMAIN plan \ {i} :
                plan[j] = "ok" /\ chunk_results[j] = Translated(chunks[j + 1])

\* the calling thread or a worker has a step to take
CanProceed ==
    \/ pc \in {"start", "submit"}
    \/ Running # {}
    \/ /\ \E i \in DOMAIN fstate : fstate[i] = "queued"
       /\ Cardinality(Running) < max_workers
    \/ /\ pc = "collect"
       /\ \E i \in DOMAIN fstate : fstate[i] = "finished" /\ i \notin Yielded
    \/ /\ pc = "collect"
       /\ Yielded = DOMAIN fstate
       /\ \A i \in DOMAIN fstate : fstate[i] = "finished"

\* C3: no exception leaves translate_text: the invocation is never in the
\* raised state, and as long as it has not returned it is not stuck.
C3_NeverRaises ==
    /\ pc # "raised"
    /\ ~Returned => CanProceed

\* an exception left basic_translate and the invocation returned the text
C3_Witness ==
    /\ Returned
    /\ path = "direct"
    /\ plan[0] = "escape"
    /\ ~IsBlank(text)
    /\ ret = text

AllCallsFail == calls # <<>> /\ \A i \in DOMAIN plan : plan[i] \in FailureOutcomes

C5_BoundedFanOut ==
    Cardinality(Running) <= (IF total_chunks < PoolCap THEN total_chunks ELSE PoolCap)

\* the pool is saturated while a chunk waits in its queue
C5_Witness ==
    /\ total_chunks > PoolCap
    /\ Cardinality(Running) = PoolCap
    /\ \E i \in DOMAIN fstate : fstate[i] = "queued"

\* C6: a chunked invocation returns only when every chunk's call has
\* finished and every index has a recorded result.
C6_FanInComplete ==
    (Returned /\ Chunked) =>
        \A i \in 0..(total_chunks - 1) :
            /\ i \in DOMAIN fstate
            /\ fstate[i] = "finished"
            /\ i \in DOMAIN chunk_results

\* the caller was collecting a result while another call was still running
C6_Witness ==
    /\ pc = "collect"
    /\ arrival # <<>>
    /\ Running # {}

RECURSIVE IndexJoin(_, _)
\* r_0 + ' ' + r_1 + ... + ' ' + r_n
IndexJoin(r, n) ==
    IF n = 0 THEN r[0]
    ELSE Cat(Cat(IndexJoin(r, n - 1), <<Sp(1)>>), r[n])

\* C7: the value returned on the chunked path is the recorded results in
\* index order, a single space between neighbours, whatever the order of
\* arrival.
C7_Reassembly ==
    (Returned /\ Chunked) =>
        /\ DOMAIN chunk_results = 0..(total_chunks - 1)
        /\ ret = IndexJoin(chunk_results, total_chunks - 1)

\* results that arrived out of index order were joined
C7_Witness ==
    /\ Returned /\ Chunked
    /\ OutOfOrder
    /\ chunk_results[arrival[1]] # chunk_results[0]

\* C8: a non-empty text shorter than 200 is passed whole to the translator
\* in one call, without chunking and without a pool; a text of exactly 200
\* takes the chunked path.
C8_Bypass ==
    Returned =>
        /\ (text # <<>> /\ StrLen(text) < ShortTextLimit) =>
              /\ path = "direct"
              /\ calls = <<text>>
              /\ chunks = <<>>
              /\ max_workers = 0
              /\ submitted = 0
        /\ StrLen(text) = ShortTextLimit => path \in {"chunked", "nochunks"}

\* a text of 199 characters went through the single call
C8_Witness ==
    /\ Returned
    /\ StrLen(text) = ShortTextLimit - 1
    /\ path = "direct"
    /\ calls = <<text>>

\* C9: the empty text, and a text of 200 or more that yields no chunk, give
\* the empty string without any translation call and without an error.
C9_EmptyBatch ==
    /\ (Returned /\ text = <<>>) => (ret = <<>> /\ calls = <<>>)
    /\ (pc \in {"returned", "raised"} /\ text # <<>>
            /\ StrLen(text) >= ShortTextLimit
            /\ split_text_into_chunks(text, DefaultChunkSize) = <<>>)
        => (Returned /\ ret = <<>> /\ calls = <<>> /\ submitted = 0)

\* a whitespace-only text of 200 characters or more gave the empty string
C9_Witness ==
    /\ Returned
    /\ path = "nochunks"
    /\ StrLen(text) >= ShortTextLimit
    /\ ret = <<>>

\* C10: the chunks joined by single spaces have the words of the text, in
\* the order of the text.
C10_WordOrder ==
    pc = "chunked" => WordsOf(JoinSpace(chunks)) = WordsOf(text)

-----------------------------------------------------------------------------
(* Properties of split_text_into_chunks *)

\* a chunk that is one whitespace-free word
SingleWord(chunk) == Len(chunk) = 1 /\ ~IsSpace(chunk[1])

\* C11: every chunk is at most chunk_size characters long, unless it is one
\* whitespace-free word longer than chunk_size.
C11_SizeBound ==
    pc = "chunked" =>
        \A k \in 1..Len(chunks) :
            \/ StrLen(chunks[k]) <= chunk_size
            \/ SingleWord(chunks[k])

RECURSIVE AllWords(_)
\* the words of all the chunks, chunk after chunk
AllWords(chs) ==
    IF chs = <<>> THEN <<>> ELSE WordsOf(Head(chs)) \o AllWords(Tail(chs))

\* C12: every word of the text is in exactly one chunk, once: the words of
\* the chunks are a rearrangement of the words of the text.
C12_NoDataLoss ==
    pc = "chunked" =>
        /\ Len(AllWords(chunks)) = Len(WordsOf(text))
        /\ Range(AllWords(chunks)) = Range(WordsOf(text))

C12_Witness ==
    /\ pc = "chunked"
    /\ Len(chunks) >= 2
    /\ \E s \in Range(SplitSentences(text)) :
           StrLen(s) > chunk_size /\ Len(WordsOf(s)) >= 2
    /\ AllWords(chunks) # WordsOf(text)

\* C13: the result is the empty list exactly when the text is empty or
\* whitespace only.
C13_EmptyIffBlank ==
    pc = "chunked" => (chunks = <<>> <=> IsBlank(text))

C13_Witness ==
    pc = "chunked" /\ text # <<>> /\ IsBlank(text) /\ chunks = <<>>

\* the text with every whitespace run that follows . ! or ? made one space
RECURSIVE NormaliseSeparators(_, _)
NormaliseSeparators(s, i) ==
    IF i > Len(s) THEN <<>>
    ELSE <<IF IsSpace(s[i]) /\ i > 1 /\ s[i - 1].e THEN Sp(1) ELSE s[i]>>
         \o NormaliseSeparators(s, i + 1)

FitsOneChunk == pc = "chunked" /\ ~IsBlank(text) /\ StrLen(text) < chunk_size

\* C14 as stated: a text that is not blank and shorter than chunk_size gives
\* one chunk, equal to the stripped text.
C14_Original == FitsOneChunk => chunks = <<Strip(text)>>

\* C14: a text that is not blank and shorter than chunk_size gives one chunk,
\* equal to the stripped text in which every whitespace run that follows
\* . ! or ? is one space.
C14_SingleChunk ==
    FitsOneChunk => chunks = <<Strip(NormaliseSeparators(text, 1))>>

C14_Witness ==
    FitsOneChunk /\ Len(chunks) = 1 /\ chunks[1] # Strip(text)

\* C15: no chunk holds words of a sentence longer than chunk_size together
\* with words of another sentence: the pieces of such a sentence, the last
\* one included, are chunks of their own.
C15_Independent ==
    pc = "chunked" =>
        \A s \in Range(SplitSentences(text)) :
            StrLen(s) > chunk_size =>
                \A k \in 1..Len(chunks) :
                    \/ Range(WordsOf(chunks[k])) \subseteq Range(WordsOf(s))
                    \/ Range(WordsOf(chunks[k])) \cap Range(WordsOf(s)) = {}

RECURSIVE SumLen(_)
\* the characters of all the chunks together
SumLen(chs) == IF chs = <<>> THEN 0 ELSE StrLen(Head(chs)) + SumLen(Tail(chs))

UnbrokenScenario ==
    pc = "chunked" /\ text = UnbrokenText /\ chunk_size = DefaultChunkSize

\* C16: 1000 characters without whitespace, chunk_size 800: two chunks, of
\* 1000 characters together.
C16_UnbrokenText ==
    UnbrokenScenario => Len(chunks) = 2 /\ SumLen(chunks) = 1000

C16_Witness == UnbrokenScenario /\ chunks = <<<<>>, UnbrokenText>>

-----------------------------------------------------------------------------
(* split_content_into_sections

   Here a string is the sequence of its characters, each a one-character
   string, and a position is 1-based: Python's content[a:b] is
   SubSeq(content, a + 1, b). *)

\* most pieces a document of the sections specification is made of
MaxPieces == 5

NL == "\n"
\* title of the section before the first heading
None == <<"None">>
NoMatch == [pos |-> 0]

\* the characters \s matches and strip() removes
IsWhitespace(c) == c \in {" ", NL}

RECURSIVE EqualsRun(_, _)
\* the number of = characters of d from position p on
EqualsRun(d, p) ==
    IF p <= Len(d) /\ d[p] = "=" THEN 1 + EqualsRun(d, p + 1) ELSE 0

RECURSIVE WhitespaceRun(_, _)
\* what a greedy \s* takes at position p
WhitespaceRun(d, p) ==
    IF p <= Len(d) /\ IsWhitespace(d[p]) THEN 1 + WhitespaceRun(d, p + 1) ELSE 0

RECURSIVE LStrip(_)
LStrip(s) == IF s # <<>> /\ IsWhitespace(Head(s)) THEN LStrip(Tail(s)) ELSE s

RECURSIVE RStrip(_)
RStrip(s) ==
    IF s # <<>> /\ IsWhitespace(s[Len(s)]) THEN RStrip(SubSeq(s, 1, Len(s) - 1))
    ELSE s

\* s.strip() on a string of characters
StripChars(s) == RStrip(LStrip(s))

\* content.find('\n', pos), with len(content) for -1: lines 399-401
HeadingEnd(content, pos) ==
    LET nls == {q \in pos..Len(content) : content[q] = NL}
    IN  IF nls = {} THEN Len(content) + 1
        ELSE CHOOSE q \in nls : \A r \in nls : q <= r

\* \1 at position q: the n characters from q on are all =
Closes(d, q, n) == EqualsRun(d, q) >= n

\* (={n})\s*(.*?)\s*\1 at position p, for a group 1 of n characters: the first
\* \s* takes the whole whitespace run, (.*?) the fewest characters of the line
\* after which whitespace and n more = follow
MatchWith(d, p, n) ==
    LET t0 == p + n + WhitespaceRun(d, p + n)
        ends == {e \in t0..(Len(d) + 1) :
                    /\ \A q \in t0..(e - 1) : d[q] # NL
                    /\ Closes(d, e + WhitespaceRun(d, e), n)}
    IN  IF ends = {} THEN NoMatch
        ELSE LET e == CHOOSE x \in ends : \A y \in ends : x <= y
             IN  [pos |-> p, level |-> n, title |-> SubSeq(d, t0, e - 1),
                  end |-> e + WhitespaceRun(d, e) + n]

\* ^ under re.MULTILINE
AtLineStart(d, p) == p = 1 \/ d[p - 1] = NL

\* heading_pattern at position p, line 361: group 1 takes as many = as it can
\* have, 6 at most, and gives them back one by one down to 2
MatchAt(d, p) ==
    IF ~AtLineStart(d, p) THEN NoMatch
    ELSE LET run == Min(EqualsRun(d, p), 6)
             ns == {n \in 2..run : MatchWith(d, p, n) # NoMatch}
         IN  IF ns = {} THEN NoMatch
             ELSE MatchWith(d, p, CHOOSE n \in ns : \A m \in ns : m <= n)

RECURSIVE FindIter(_, _)
\* heading_pattern.finditer(content), lines 365-369: the matches from left to
\* right, each search starting where the last match ended
FindIter(d, from) ==
    LET starts == {p \in from..Len(d) : MatchAt(d, p) # NoMatch}
    IN  IF starts = {} THEN <<>>
        ELSE LET m == MatchAt(d, CHOOSE p \in starts : \A q \in starts : p <= q)
             IN  <<m>> \o FindIter(d, m.end)

\* faulty variant: the document is kept with its outer whitespace
whole_document_unstripped(content) ==
    [title |-> None, content |-> content, level |-> 0]

\* lines 414-418
whole_document(content) ==
    [title |-> None, content |-> StripChars(content), level |-> 0]

\* faulty variant: the section before the first heading is there even when
\* it is blank
intro_section_always(content, headings) ==
    <<[title |-> None,
       content |-> StripChars(SubSeq(content, 1, headings[1].pos - 1)),
       level |-> 0]>>

\* lines 379-386: the section before the first heading, when it is not blank
intro_section(content, headings) ==
    LET intro_content == StripChars(SubSeq(content, 1, headings[1].pos - 1))
    IN  IF intro_content # <<>>
        THEN <<[title |-> None, content |-> intro_content, level |-> 0]>>
        ELSE <<>>

\* faulty variant: the content starts at the heading, not after its line
heading_section_with_line(content, headings, i) ==
    LET end_pos == IF i < Len(headings) THEN headings[i + 1].pos
                   ELSE Len(content) + 1
    IN  [title |-> headings[i].title,
         content |-> StripChars(SubSeq(content, headings[i].pos, end_pos - 1)),
         level |-> headings[i].level]

\* lines 389-410: the section of heading i. headings is in the order of the
\* positions already, so headings.sort() (line 372) leaves it as it is
heading_section(content, headings, i) ==
    LET end_pos == IF i < Len(headings) THEN headings[i + 1].pos
                   ELSE Len(content) + 1
        heading_end == HeadingEnd(content, headings[i].pos)
    IN  [title |-> headings[i].title,
         content |-> StripChars(SubSeq(content, heading_end, end_pos - 1)),
         level |-> headings[i].level]

split_content_into_sections(content) ==
    LET headings == FindIter(content, 1)
        sections ==
            IF headings = <<>> THEN <<>>
            ELSE intro_section(content, headings)
                 \o [i \in 1..Len(headings) |->
                        heading_section(content, headings, i)]
    IN  IF sections = <<>> THEN <<whole_document(content)>> ELSE sections

\* what the documents are made of: delimiters, text, whitespace, and a whole
\* heading
Pieces ==
    {<<"=">>, <<"=", "=">>, <<"a">>, <<" ">>, <<NL>>,
     <<"=", "=", "a", "=", "=">>}

RECURSIVE Concats(_)
\* the documents made of exactly k pieces
Concats(k) ==
    IF k = 0 THEN {<<>>}
    ELSE {d \o piece : d \in Concats(k - 1), piece \in Pieces}

Documents == UNION {Concats(k) : k \in 0..MaxPieces}

RunSections ==
    /\ pc = "sections"
    /\ ret' = split_content_into_sections(text)
    /\ pc' = "sectioned"
    /\ UNCHANGED <<article_state, bot_state, translate_lock, invocation, writing, text, chunk_size, plan, path, chunks, max_workers, submitted,
                   fstate, fresult, chunk_results, arrival, calls>>

\* "Intro text\n==A==\nBody A\n===A1===\nBody A1"
IntroText == <<"I", "n", "t", "r", "o", " ", "t", "e", "x", "t">>
BodyA == <<"B", "o", "d", "y", " ", "A">>
BodyA1 == <<"B", "o", "d", "y", " ", "A", "1">>
ScenarioDocument ==
    IntroText \o <<NL, "=", "=", "A", "=", "=", NL>> \o BodyA
    \o <<NL, "=", "=", "=", "A", "1", "=", "=", "=", NL>> \o BodyA1

\* split_content_into_sections on every document of at most MaxPieces pieces,
\* and on the scenario document
InitSections ==
    \/ \E content \in Documents :
           InitWith(content, DefaultChunkSize, <<>>, "sections")
    \/ InitWith(ScenarioDocument, DefaultChunkSize, <<>>, "sections")

NextSections == RunSections

SpecSections == InitSections /\ [][NextSections]_vars

-----------------------------------------------------------------------------
(* Properties of split_content_into_sections *)

Sectioned == pc = "sectioned"

RECURSIVE LinesFrom(_, _, _, _)
LinesFrom(d, i, cur, out) ==
    IF i > Len(d) THEN Append(out, cur)
    ELSE IF d[i] = NL THEN LinesFrom(d, i + 1, <<>>, Append(out, cur))
         ELSE LinesFrom(d, i + 1, Append(cur, d[i]), out)

\* the lines of d, without their line ends
Lines(d) == LinesFrom(d, 1, <<>>, <<>>)

RECURSIVE JoinLines(_, _, _)
\* lines a..b of ls, a line end between two of them
JoinLines(ls, a, b) ==
    IF a > b THEN <<>>
    ELSE IF a = b THEN ls[a]
         ELSE ls[a] \o <<NL>> \o JoinLines(ls, a + 1, b)

\* the line of d that position p is the start of
LineAt(d, p) == SubSeq(d, p, HeadingEnd(d, p) - 1)

RECURSIVE ClosingRun(_)
\* the number of = characters a line ends with
ClosingRun(l) ==
    IF l # <<>> /\ l[Len(l)] = "=" THEN 1 + ClosingRun(SubSeq(l, 1, Len(l) - 1))
    ELSE 0

\* the line is n delimiters, a title, and n delimiters that close the line,
\* for some n of 2..6 (whitespace after them left aside)
SameDelimiters(line) ==
    LET l == RStrip(line)
    IN  \E n \in 2..6 :
            /\ Len(l) >= 2 * n
            /\ \A i \in 1..n : l[i] = "=" /\ l[Len(l) + 1 - i] = "="

\* the line opens and closes with delimiters whose numbers differ, or are
\* more than 6
Malformed(line) ==
    LET l == RStrip(line)
        opening == EqualsRun(l, 1)
        closing == ClosingRun(l)
    IN  /\ opening >= 2
        /\ closing >= 2
        /\ opening + closing <= Len(l)
        /\ (opening # closing \/ opening > 6)

ValidHeading(line) == SameDelimiters(line) /\ ~Malformed(line)

\* the numbers of the lines of ls that are valid headings
HeadingLines(ls) == {i \in 1..Len(ls) : ValidHeading(ls[i])}

\* the section contents the lines give: what stands before the first heading
\* line, if it is not blank, then what stands after each heading line up to
\* the next one, each stripped
ExpectedContents(d) ==
    LET ls == Lines(d)
        hs == HeadingLines(ls)
        first == CHOOSE i \in hs : \A j \in hs : i <= j
        next(i) == IF \E j \in hs : j > i
                   THEN CHOOSE j \in hs : j > i /\ \A m \in hs : m > i => j <= m
                   ELSE Len(ls) + 1
        RECURSIVE bodies(_)
        bodies(i) ==
            IF i > Len(ls) THEN <<>>
            ELSE <<StripChars(JoinLines(ls, i + 1, next(i) - 1))>>
                 \o bodies(next(i))
        lead == StripChars(JoinLines(ls, 1, first - 1))
    IN  (IF lead # <<>> THEN <<lead>> ELSE <<>>) \o bodies(first)

\* C17: in a document with at least one valid heading, the contents of the
\* sections, in order, are the document without its heading lines, each
\* span between them stripped.
C17_Reconstruction ==
    (Sectioned /\ HeadingLines(Lines(text)) # {}) =>
        [k \in 1..Len(ret) |-> ret[k].content] = ExpectedContents(text)

\* no line of d starts with two = characters
NoMarkers(d) == \A p \in 1..Len(d) : AtLineStart(d, p) => EqualsRun(d, p) < 2

\* C18: a document without heading markers, the empty one included, gives
\* one section, of title None and level 0, whose content is the stripped
\* document.
C18_NoHeadings ==
    (Sectioned /\ NoMarkers(text)) =>
        ret = <<[title |-> None, content |-> StripChars(text), level |-> 0]>>

C18_Witness ==
    /\ Sectioned
    /\ NoMarkers(text)
    /\ \E p \in 1..Len(text) : EqualsRun(text, p) >= 2
    /\ StripChars(text) # text
    /\ Len(ret) = 1

\* C19: a heading is recognised only on a line that is n delimiters, a
\* title and the same n delimiters closing the line.
C19_WholeLine ==
    Sectioned =>
        \A h \in Range(FindIter(text, 1)) : SameDelimiters(LineAt(text, h.pos))

\* C20: no heading is recognised on a line whose opening and closing
\* delimiters differ in number or are more than 6.
C20_Malformed ==
    Sectioned =>
        \A h \in Range(FindIter(text, 1)) : ~Malformed(LineAt(text, h.pos))

\* the number of the line of d that position p is in
LineNo(d, p) == 1 + Cardinality({q \in 1..(p - 1) : d[q] = NL})

\* the recognised headings of the text
Headings == FindIter(text, 1)

\* the text before the first heading is not blank
HasLead == StripChars(SubSeq(text, 1, Headings[1].pos - 1)) # <<>>

\* what the lines say the content of the section of heading i is: the lines
\* after the heading's line, up to the line of the next heading, stripped
BodyOf(i) ==
    LET ls == Lines(text)
        last == IF i < Len(Headings)
                THEN LineNo(text, Headings[i + 1].pos) - 1
                ELSE Len(ls)
    IN  StripChars(JoinLines(ls, LineNo(text, Headings[i].pos) + 1, last))

\* a heading line of n delimiters on both sides and no = between them
PlainHeading(line) ==
    LET l == RStrip(line)
        n == EqualsRun(l, 1)
    IN  /\ n \in 2..6
        /\ ClosingRun(l) = n
        /\ 2 * n <= Len(l)
        /\ \A q \in (n + 1)..(Len(l) - n) : l[q] # "="

\* C21: there is one section for each recognised heading, in the order of
\* the document, after the lead section if the text before the first heading
\* is not blank; its title and level are those of the heading (on a plain
\* heading line: the text between the delimiters and their number) and its
\* content is the stripped text between the heading's line and the next
\* heading.
C21_PerHeading ==
    (Sectioned /\ Headings # <<>>) =>
        LET lead == IF HasLead THEN 1 ELSE 0
        IN  /\ Len(ret) = Len(Headings) + lead
            /\ \A i \in 1..Len(Headings) :
                   LET line == RStrip(LineAt(text, Headings[i].pos))
                       sec == ret[lead + i]
                   IN  /\ sec.title = Headings[i].title
                       /\ sec.level = Headings[i].level
                       /\ sec.content = BodyOf(i)
                       /\ PlainHeading(line) =>
                              /\ sec.level = EqualsRun(line, 1)
                              /\ sec.title =
                                     StripChars(SubSeq(line, sec.level + 1,
                                                       Len(line) - sec.level))

C21_Witness ==
    /\ Sectioned
    /\ text = ScenarioDocument
    /\ ret = <<[title |-> None, content |-> IntroText, level |-> 0],
               [title |-> <<"A">>, content |-> BodyA, level |-> 2],
               [title |-> <<"A", "1">>, content |-> BodyA1, level |-> 3]>>

\* C22: a section of title None is the first section and has level 0; when
\* there are headings it is there only if the text before the first heading
\* is not blank; every other section, one of empty title included, has a
\* level of 2..6.
C22_LeadSection ==
    Sectioned =>
        /\ \A k \in 1..Len(ret) :
               IF ret[k].title = None
               THEN k = 1 /\ ret[k].level = 0
               ELSE ret[k].level \in 2..6
        /\ (Headings # <<>> /\ ret[1].title = None) => HasLead

C22_Witness ==
    /\ Sectioned
    /\ Len(ret) = 2
    /\ ret[1].title = None
    /\ ret[2].title = <<>>
    /\ ret[2].level = 2

-----------------------------------------------------------------------------
(* Properties of basic_translate *)

\* the answers that are not a translation: the request raises, the status
\* is not 200, or the answer has not the shape of a translation
FailedAnswers == ProviderAnswers \ {"ok"}

\* C23: basic_translate does not raise, and when the request fails, the
\* status is not 200 or the answer has an unexpected shape, it returns its
\* text unchanged.
C23_ReturnsInput ==
    (path = "basic" /\ plan[0] \in FailedAnswers) =>
        pc = "returned" /\ ret = text

-----------------------------------------------------------------------------
(* Termination of translate_text *)

\* C24: when every call ends and the threads are scheduled fairly,
\* translate_text returns, for every number of chunks, more than PoolCap
\* included.
C24_Termination == <>(pc = "returned")

C24_Witness ==
    pc = "returned" /\ total_chunks > PoolCap /\ max_workers = PoolCap

\* a chunk whose call never ends
Hanging == {i \in 0..(total_chunks - 1) :
               ~IsBlank(chunks[i + 1]) /\ plan[i] = "hang"}

\* C25: when the call of one chunk never ends, translate_text does not
\* return, and no result of another chunk reaches the caller.
C25_NoDeadline ==
    (Chunked /\ Hanging # {}) => (pc # "returned" /\ ret = <<>>)

C25_Witness ==
    /\ Chunked
    /\ pc = "collect"
    /\ Hanging # {}
    /\ total_chunks >= 2
    /\ \A i \in DOMAIN fstate : i \notin Hanging => i \in DOMAIN chunk_results
    /\ \A i \in Hanging : fstate[i] = "running"

-----------------------------------------------------------------------------
(* The indices and the calls of one translate_text invocation *)

\* C26: the futures have the indices 0..N-1 of the N chunks, each once;
\* every write into chunk_results is under an index not written before, and
\* at the return the keys of chunk_results are exactly 0..N-1.
C26_IndexDiscipline ==
    Chunked =>
        /\ DOMAIN fstate = 0..(submitted - 1)
        /\ submitted <= total_chunks
        /\ pc \in {"collect", "returned"} => submitted = total_chunks
        /\ Cardinality(DOMAIN chunk_results) = Len(arrival)
        /\ DOMAIN chunk_results \subseteq 0..(total_chunks - 1)
        /\ Returned =>
              /\ DOMAIN chunk_results = 0..(total_chunks - 1)
              /\ Len(arrival) = total_chunks

C26_Witness ==
    /\ Returned /\ Chunked
    /\ total_chunks = 3
    /\ arrival = <<2, 0, 1>>

\* the number of calls made with the chunk as their text
CallsOf(chunk) == Cardinality({c \in DOMAIN calls : calls[c] = chunk})

C28_ExclusiveWrites == Cardinality(writing) <= 1

\* a write is under way while another future has finished and waits to be
\* yielded, and a third call is still running
C28_Witness ==
    /\ Cardinality(writing) = 1
    /\ \E j \in DOMAIN fstate : fstate[j] = "finished" /\ j \notin Yielded
    /\ Running # {}

-----------------------------------------------------------------------------
(* Sentence packing of split_text_into_chunks *)

\* every sentence of the text fits in chunk_size
AllFit ==
    /\ pc = "chunked"
    /\ \A s \in Range(SplitSentences(text)) : StrLen(s) <= chunk_size

\* the first sentence of a chunk
FirstSentence(chunk) == SplitSentences(chunk)[1]

\* C29 as stated: every chunk but the last is maximal: with a space and the
\* first sentence of the chunk after it, it is longer than chunk_size.
C29_Original ==
    AllFit =>
        \A k \in 1..(Len(chunks) - 1) :
            StrLen(chunks[k]) + 1 + StrLen(FirstSentence(chunks[k + 1]))
                > chunk_size

RECURSIVE SentencesBefore(_)
\* the number of sentences in the first k chunks
SentencesBefore(k) ==
    IF k = 0 THEN 0
    ELSE SentencesBefore(k - 1) + Len(SplitSentences(chunks[k]))

\* the sentences of the text; the empty one that re.split gives after a
\* separator at the end of the text is left out, no chunk has it
Sentences ==
    LET all == SplitSentences(text)
    IN  IF all[Len(all)] = <<>> THEN SubSeq(all, 1, Len(all) - 1) ELSE all

\* the sentences of chunk k as they stand in the text, joined by single
\* spaces: the first of them with the whitespace the text begins with, the
\* last with the whitespace the text ends with
RawChunk(k) ==
    LET sentences == Sentences
        last == IF k = Len(chunks) THEN Len(sentences) ELSE SentencesBefore(k)
    IN  JoinSpace(SubSeq(sentences, SentencesBefore(k - 1) + 1, last))

\* C29: a chunk is closed exactly when the sentences gathered so far, not
\* stripped, with a space and the next sentence, not stripped, are longer
\* than chunk_size: every chunk is its sentences joined by single spaces
\* and stripped, these are at most chunk_size long before stripping, and
\* with a space and the next sentence they are longer than chunk_size.
C29_GreedyPacking ==
    AllFit =>
        LET sentences == Sentences
        IN  \A k \in 1..Len(chunks) :
                /\ chunks[k] = Strip(RawChunk(k))
                /\ StrLen(RawChunk(k)) <= chunk_size
                /\ k < Len(chunks) =>
                       StrLen(RawChunk(k)) + 1
                           + StrLen(sentences[SentencesBefore(k) + 1])
                           > chunk_size

\* a chunk was closed although, stripped, it had room for the next sentence
C29_Witness ==
    /\ AllFit
    /\ Len(chunks) >= 2
    /\ StrLen(chunks[1]) + 1 + StrLen(FirstSentence(chunks[2])) <= chunk_size

-----------------------------------------------------------------------------
(* Total degradation of translate_text *)

\* every chunk of the invocation falls back to its original text
AllFallBack ==
    /\ Chunked
    /\ \A i \in 0..(total_chunks - 1) : plan[i] \in FailureOutcomes

\* C30: when every chunk falls back, translate_text does not raise: it
\* returns, and what it returns is the chunks joined by single spaces, a
\* string like that of a translation.
C30_SilentDegradation ==
    AllFallBack =>
        /\ pc # "raised"
        /\ Returned =>
              /\ chunk_results = [i \in 0..(total_chunks - 1) |-> chunks[i + 1]]
              /\ ret = JoinSpace(chunks)

C30_Witness ==
    /\ Returned
    /\ AllFallBack
    /\ total_chunks = 3
    /\ plan = (0 :> "raise" @@ 1 :> "non200" @@ 2 :> "escape")
    /\ ret = JoinSpace(chunks)

-----------------------------------------------------------------------------
(* Blank chunks *)

\* C31: no chunk that split_text_into_chunks returns is empty or made of
\* whitespace only, whatever the text and chunk_size.
C31_NoBlankChunk ==
    pc = "chunked" => \A k \in 1..Len(chunks) : ~IsBlank(chunks[k])

-----------------------------------------------------------------------------
(* Concurrent invocations *)

\* what translate_text(txt) returns when it runs alone and its calls meet pl
Alone(txt, pl) ==
    IF txt = <<>> THEN <<>>
    ELSE IF is_short(txt)
    THEN LET r == basic_translate(txt, pl[0])
         IN  IF r.exc THEN txt ELSE r.val
    ELSE ExpectedOutput(txt, pl)

\* the lock is held by an invocation only while it reads the result of a
\* future that has finished
HeldWhileReading ==
    \A k \in Invocations :
        translate_lock = k =>
            /\ invocation[k].pc = "locked"
            /\ invocation[k].fstate[CurrentFuture(invocation[k])] = "finished"

ReturnsAsAlone ==
    \A k \in Invocations :
        invocation[k].pc = "returned" =>
            invocation[k].ret = Alone(invocation[k].text, invocation[k].plan)

Waiting(k) == invocation[k].pc = "acquire"
Reading(k) == invocation[k].pc = "locked"

\* C32: invocations running at the same time share translate_lock only.
\* The lock is held only while the result of a finished future is read, so
\* an invocation that waits for it gets it, and each invocation returns
\* what it returns when it runs alone.
C32_Concurrent ==
    /\ [](HeldWhileReading /\ ReturnsAsAlone)
    /\ Waiting(1) ~> Reading(1)
    /\ Waiting(2) ~> Reading(2)

\* the second invocation waits for the lock while the first, which has
\* stored one result already, reads its next one
C32_Witness ==
    /\ invocation # <<>>
    /\ translate_lock = 1
    /\ Reading(1)
    /\ Waiting(2)
    /\ invocation[1].chunk_results # <<>>

-----------------------------------------------------------------------------
(* Round trip *)

\* every call gives its chunk back unchanged, as a translator that returns
\* its input does
IdentityTranslator ==
    \A i \in DOMAIN plan : plan[i] \in {"non200", "badshape"}

\* s begins with whitespace
LeadingSeparator(s) == s # <<>> /\ IsSpace(s[1])

\* the whitespace runs of s that are longer than one character
LongRuns(s) == {s[p] : p \in {q \in 1..Len(s) : IsSpace(s[q]) /\ s[q].n > 1}}

\* C33: with a translator that returns its input, translate_text of a text
\* of 200 characters or more returns the words of the text in their order,
\* with no separator at the front and no longer whitespace run that the
\* text does not have.
C33_RoundTrip ==
    (Returned /\ ~is_short(text) /\ IdentityTranslator) =>
        /\ WordsOf(ret) = WordsOf(text)
        /\ LeadingSeparator(ret) => LeadingSeparator(text)
        /\ LongRuns(ret) \subseteq LongRuns(text)

-----------------------------------------------------------------------------
(* Structure of a translated article *)

\* the article passed to translate_article_content
InputArticle == IF 0 \in DOMAIN heap THEN 0 ELSE NoObject

\* a text as it was before the translator rewrote it
Original(s) == [k \in DOMAIN s |-> [s[k] EXCEPT !.t = FALSE]]

\* the sections of the dict d of heap h, none when it has no such entry
SectionsOf(h, d) ==
    IF "sections" \in DOMAIN h[d] THEN h[d].sections ELSE <<>>

\* the sections of d with a title that is neither None nor empty
Titled(h, d) ==
    {k \in 1..Len(SectionsOf(h, d)) : ~Falsy(h[SectionsOf(h, d)[k]].title)}

\* the call translated an article: it returned a dict other than its input
TranslatedOne == pc = "translated" /\ ret \notin {InputArticle, NoObject}

\* C34: a call of translate_article_content leaves the article and its
\* section dicts as they were; with from_lang = to_lang it returns the
\* article and calls translate_text for nothing; otherwise what it returns
\* has as many sections, in the same order and with the same levels, a
\* section whose title is None keeps None, and no call is made for it.
C34_Structure ==
    [][TranslateArticle =>
          LET article == InputArticle
              before == IF article = NoObject THEN <<>>
                        ELSE SectionsOf(heap, article)
              after == IF ret' = NoObject THEN <<>>
                       ELSE SectionsOf(heap', ret')
          IN  /\ \A d \in DOMAIN heap : heap'[d] = heap[d]
              /\ from_lang = to_lang =>
                     ret' = article /\ translate_calls' = <<>>
              /\ Len(after) = Len(before)
              /\ \A k \in 1..Len(before) :
                     LET old == heap[before[k]]
                         new == heap'[after[k]]
                     IN  /\ new.level = old.level
                         /\ Original(new.content) = old.content
                         /\ old.title = NoneTitle => new.title = NoneTitle
              /\ \A c \in 1..Len(translate_calls') :
                     translate_calls'[c] # NoneTitle
              /\ ret' # article =>
                     Len(translate_calls') =
                         2 + Len(before) + Cardinality(Titled(heap, article))
    ]_vars

\* an article of two sections was translated: the first section has no
\* title, the second a title that was translated
C34_Witness ==
    /\ TranslatedOne
    /\ heap[0].title = ArticleTitle
    /\ heap[ret].title = Translated(ArticleTitle)
    /\ Len(SectionsOf(heap, ret)) = 2
    /\ heap[heap[ret].sections[1]].title = NoneTitle
    /\ heap[heap[ret].sections[2]].title = Translated(<<Wd(3, 5, FALSE)>>)
    /\ heap[heap[0].sections[2]].title = <<Wd(3, 5, FALSE)>>
    /\ Len(translate_calls) = 5

-----------------------------------------------------------------------------
(* The bot *)

\* C35: a translation stored for a chat is the translation of the article
\* stored for that chat, so that back_to_translation, read_translation and
\* download_translation never show the translation of an earlier article.
C35_TranslationCurrent ==
    \A c \in DOMAIN USER_DATA :
        Has(USER_DATA[c], "translated_article") =>
            /\ Has(USER_DATA[c], "current_article")
            /\ USER_DATA[c].translated_article.of = USER_DATA[c].current_article

\* the chat has an entry in USER_STATE and in USER_DATA
Known(c) == c \in DOMAIN USER_STATE /\ c \in DOMAIN USER_DATA

\* the entries of the chats other than c are as they were
OthersUnchanged(c) ==
    \A o \in Chats \ {c} :
        /\ o \in DOMAIN USER_STATE' <=> o \in DOMAIN USER_STATE
        /\ o \in DOMAIN USER_DATA' <=> o \in DOMAIN USER_DATA
        /\ o \in DOMAIN USER_STATE => USER_STATE'[o] = USER_STATE[o]
        /\ o \in DOMAIN USER_DATA => USER_DATA'[o] = USER_DATA[o]

C37_StartResets ==
    [][\A c \in Chats :
          HandleStart(c) =>
              /\ USER_STATE'[c] = "SELECTING_LANGUAGE"
              /\ USER_DATA'[c] = [language |-> DEFAULT_LANGUAGE]
              /\ OthersUnchanged(c)
    ]_vars

\* a chat after /start, while the other chat has a query stored
C37_Witness ==
    /\ Known(1) /\ Known(2)
    /\ USER_STATE[1] = "SELECTING_LANGUAGE"
    /\ USER_DATA[1] = [language |-> DEFAULT_LANGUAGE]
    /\ USER_STATE[2] = "VIEWING_RESULTS"
    /\ USER_DATA[2] = [language |-> "es", search_query |-> "q1"]

\* C38: /cancel puts the chat in START and leaves its data, and the other
\* chats, as they were; back_to_article received afterwards shows the
\* article that was stored.
C38_CancelKeeps ==
    [][\A c \in Chats :
          Known(c) =>
              /\ HandleCancel(c) =>
                     /\ USER_STATE'[c] = "START"
                     /\ USER_DATA'[c] = USER_DATA[c]
                     /\ OthersUnchanged(c)
              /\ (/\ USER_STATE[c] = "START"
                  /\ Has(USER_DATA[c], "current_article")
                  /\ HandleBackToArticle(c)) =>
                     /\ USER_STATE'[c] = "VIEWING_ARTICLE"
                     /\ USER_DATA'[c] = USER_DATA[c]
    ]_vars

\* a chat in START that has an article and its translation stored
C38_Witness ==
    /\ Known(1)
    /\ USER_STATE[1] = "START"
    /\ Has(USER_DATA[1], "current_article")
    /\ Has(USER_DATA[1], "translated_article")
    /\ USER_DATA[1].translated_article.of = USER_DATA[1].current_article

-----------------------------------------------------------------------------
(* translate_chunk *)

\* translate_chunk has returned or raised
ChunkDone == path = "chunk"

\* C39: translate_chunk never raises; for a chunk that is empty or blank it
\* returns the empty string and the translator is not called; for any other
\* chunk the translator is called once with the chunk, and the result is
\* the translator's, or the chunk when the translator raises.
C39_TranslateChunk ==
    ChunkDone =>
        /\ pc = "returned"
        /\ IF IsBlank(text)
           THEN ret = <<>> /\ calls = <<>>
           ELSE /\ calls = <<text>>
                /\ LET r == basic_translate(text, plan[0])
                   IN  ret = IF r.exc THEN text ELSE r.val

\* the translator raised for a chunk with a word in it, and the chunk came
\* back
C39_Witness ==
    /\ ChunkDone
    /\ plan[0] = "escape"
    /\ ~IsBlank(text)
    /\ text # Strip(text)
    /\ ret = text
    /\ calls = <<text>>

====
